---- MODULE Spec2Model ----
(***************************************************************************)
(* HasuraClient (packages/api-cardano-db-hasura/src/HasuraClient.ts):      *)
(* the schema synchronisation workflow (applySchemaAndMetadata, the        *)
(* retried schema build, initialize), the two DataFetchers with their      *)
(* producers and shutdown, and the balance aggregation of                  *)
(* getPaymentAddressSummary.                                               *)
(*                                                                         *)
(* Node.js runs the client on one thread: every action below is one        *)
(* synchronous segment of code between two suspension points (the call     *)
(* itself, the completion of a CLI command, of a request, or of a retry    *)
(* timer).                                                                 *)
(***************************************************************************)
EXTENDS Integers, Sequences, FiniteSets, TLC

(* ------------------------------ bounds --------------------------------- *)

\* number of applySchemaAndMetadata()/initialize() calls issued on the instance
MaxCalls == 2

\* number of calls issued on the instance when termination is checked
MaxLiveCalls == 1

\* number of initialize()/shutdown() calls issued on the instance when the
\* fetchers' lifecycle is studied
MaxLifecycleCalls == 3

(* ------------------------- program constants --------------------------- *)

\* pRetry option `retries` of the three retried units
Retries == 9

MaxAttempts == Retries + 1

MigrateDown == "migrate apply --down all"

MigrateUp == "migrate apply --up all"

MetadataClear == "metadata clear"

MetadataApply == "metadata apply"

CliCommands == {MigrateDown, MigrateUp, MetadataClear, MetadataApply}

\* the list buildHasuraSchema checks, in the order it checks it
coreTypes == <<"Block", "Cardano", "Epoch", "Block", "Transaction">>

RequiredTypes == {coreTypes[i] : i \in 1..Len(coreTypes)}

\* type names an introspected remote schema may expose
TypeNames == RequiredTypes \cup {"Asset", "Token"}

\* what introspection may return while the store is catching up: the tracked
\* tables appear one by one, so the full schema or the schema short of one type
IntrospectionResults == {RequiredTypes} \cup {RequiredTypes \ {t} : t \in RequiredTypes}

Fetchers == {"ProtocolParams", "AdaCirculatingSupply"}

\* line 44: the message of the error that means 'not ready yet'
NotReadyMessage ==
    "currentEpoch is only available when close to the chain tip. This is expected during the initial chain-sync."

\* the values a query of a fetcher's producer may resolve with
Values == {"v1", "v2"}

\* how this.client.query may settle inside a producer: with data, or with an
\* error carrying some message
QueryOutcomes ==
    {[kind |-> "value", value |-> v] : v \in Values}
        \cup {[kind |-> "error", message |-> m] : m \in {NotReadyMessage, "Network error"}}

\* one outcome of each kind, where the value and the message do not matter
PlainOutcomes ==
    {[kind |-> "value", value |-> "v1"], [kind |-> "error", message |-> "Network error"]}

Calls == 1..(IF MaxCalls > MaxLifecycleCalls THEN MaxCalls ELSE MaxLifecycleCalls)

Absent == {"<absent>"}

(* ------------------------------- state --------------------------------- *)

VARIABLES
    applyingSchemaAndMetadata,  \* the reentrancy flag of the instance
    schema,                     \* this.schema: Absent or the set of exposed types
    fetcher,                    \* the two DataFetchers: state, cached value, ...
    call,                       \* the calls issued on the instance, by issue order
    remoteSchema,               \* buildHasuraSchema alone: the remote schema
    buildOutcome,               \* buildHasuraSchema alone: its outcome
    utxos,                      \* getPaymentAddressSummary: result.data.utxos
    utxosCount,                 \* ... result.data.utxos_aggregate.aggregate.count
    summary                     \* ... the PaymentAddressSummary returned

clientVars == <<applyingSchemaAndMetadata, schema, fetcher, call>>

buildVars == <<remoteSchema, buildOutcome>>

summaryVars == <<utxos, utxosCount, summary>>

vars == <<applyingSchemaAndMetadata, schema, fetcher, call,
          remoteSchema, buildOutcome, utxos, utxosCount, summary>>

NotBuilt == [ok |-> FALSE, schema |-> {}, missing |-> "<not built>"]

NoSummary == [assetBalances |-> <<>>, utxosCount |-> -1]

\* an error object; att is the attempt of the retried unit that produced it
NoError == [kind |-> "none", unit |-> "", what |-> "", att |-> 0]

Error(kind, unit, what, att) == [kind |-> kind, unit |-> unit, what |-> what, att |-> att]

\* a DataFetcher right after its constructor: no background activity, no
\* value; inFlight counts the producer invocations not yet settled, armed the
\* periodic loops started so far, skipped records that a tick was dropped,
\* lastTick how the latest invocation made by a tick settled
NewFetcher ==
    [state |-> "Created", lastValue |-> "<absent>", inFlight |-> 0,
     armed |-> 0, skipped |-> FALSE, lastTick |-> "none"]

\* a call that has not been issued yet
IdleCall ==
    [kind |-> "idle", pc |-> "idle", step |-> 0, unit |-> "", attempt |-> 0,
     runs |-> 0, raised |-> NoError,
     begun |-> <<>>, finished |-> <<>>, okUnits |-> {},
     concurrent |-> FALSE, invoked |-> {}]

\* the call is inside its apply sequence (a CLI command or a retry delay of it)
InApply(rec) ==
    \/ rec.pc \in CliCommands
    \/ rec.pc = "backoff" /\ rec.unit \in {"migrations", "metadata"}

(* --------------------------- code, as operators ------------------------ *)

\* line 159: if (this.applyingSchemaAndMetadata) return
AlreadyApplying_unguarded(flag) == FALSE

AlreadyApplying(flag) == flag

\* the operations one attempt of a retried unit runs, in order
UnitOps(unit) ==
    CASE unit = "migrations" -> <<MigrateDown, MigrateUp>>
      [] unit = "metadata"   -> <<MetadataClear, MetadataApply>>
      [] unit = "build"      -> <<"introspect">>

\* pRetry: after a failed attempt, is another attempt made?
pRetryShouldRetry_offByOne(attempt, error) == attempt < Retries

pRetryShouldRetry_abortMissing(attempt, error) == attempt <= Retries /\ error.kind /= "missing"

pRetryShouldRetry_forever(attempt, error) == TRUE

pRetryShouldRetry(attempt, error) == attempt <= Retries

\* the steps of initialize(), lines 137-150, and of a bare applySchemaAndMetadata()
InitializeOrder_fetchersFirst == <<"apply", "pv", "build", "supply">>

InitializeOrder == <<"apply", "build", "pv", "supply">>

\* the steps of shutdown(), lines 154-155
ShutdownOrder_startOrder == <<"pvStop", "supplyStop">>

ShutdownOrder == <<"supplyStop", "pvStop">>

Order(kind) ==
    CASE kind = "init"     -> InitializeOrder
      [] kind = "shutdown" -> ShutdownOrder
      [] OTHER             -> <<"apply">>

FetcherOf(step) ==
    IF step \in {"pv", "pvStop"} THEN "ProtocolParams" ELSE "AdaCirculatingSupply"

\* calling an async function never throws: it returns a promise that settles
\* with the function's outcome
AsyncCall(outcome) ==
    [thrown |-> FALSE, error |-> [message |-> ""], promise |-> outcome]

\* lines 40-49, the producer of adaCirculatingSupplyFetcher: the promise of
\* getAdaCirculatingSupply() is returned from the try block without being
\* awaited, so the catch block handles a synchronous throw of the call only
adaCirculatingSupplyProducer(outcome) ==
    LET result == AsyncCall(outcome)
    IN  IF result.thrown
        THEN IF result.error.message /= NotReadyMessage
             THEN [kind |-> "error", message |-> result.error.message]
             ELSE [kind |-> "value", value |-> "<undefined>"]
        ELSE result.promise

\* lines 55-59, the producer of currentProtocolVersionFetcher: the awaited
\* value is returned, a rejection of the query propagates
currentProtocolVersionProducer(outcome) ==
    IF outcome.kind = "error" THEN outcome
    ELSE [kind |-> "value", value |-> outcome.value]

Producer(f, outcome) ==
    IF f = "AdaCirculatingSupply" THEN adaCirculatingSupplyProducer(outcome)
    ELSE currentProtocolVersionProducer(outcome)

\* DataFetcher.initialize(): Created -> Initializing with one invocation of
\* the producer; a fetcher that is not Created is not started again
FetcherInitialize_restart(d) ==
    [d EXCEPT !.state = "Initializing", !.inFlight = @ + 1]

FetcherInitialize(d) ==
    IF d.state = "Created"
    THEN [d EXCEPT !.state = "Initializing", !.inFlight = @ + 1]
    ELSE d

\* the first fetch succeeded: the value is stored, the periodic loop is armed
FetcherStarted(d, value) ==
    [d EXCEPT !.state = "Running", !.lastValue = value, !.inFlight = @ - 1,
              !.armed = @ + 1]

\* the first fetch failed: the fetcher remains not running
FetcherStartFailed(d) == [d EXCEPT !.inFlight = @ - 1]

\* DataFetcher.shutdown(): Running -> Stopped, the timer is cancelled; a
\* no-op on a fetcher that is not running
FetcherShutdown(d) ==
    IF d.state = "Running" THEN [d EXCEPT !.state = "Stopped"] ELSE d

\* a timer tick: the producer is invoked unless an invocation is outstanding,
\* in which case the tick is dropped
FetcherTick_overlap(d) == [d EXCEPT !.inFlight = @ + 1]

FetcherTick(d) ==
    IF d.inFlight > 0 THEN [d EXCEPT !.skipped = TRUE]
    ELSE [d EXCEPT !.inFlight = @ + 1]

\* the producer invoked by a tick settled: a value replaces the cached one
\* (it is discarded once the fetcher is stopped), a failure is logged and
\* the cached value is retained
FetcherSettled_clearsOnFailure(d, out) ==
    [d EXCEPT !.lastValue = IF d.state /= "Running" THEN @
                            ELSE IF out.kind = "value" THEN out.value ELSE "<absent>",
              !.inFlight = @ - 1,
              !.lastTick = IF out.kind = "value" THEN "ok" ELSE "failed"]

FetcherSettled(d, out) ==
    [d EXCEPT !.lastValue = IF out.kind = "value" /\ d.state = "Running"
                            THEN out.value ELSE @,
              !.inFlight = @ - 1,
              !.lastTick = IF out.kind = "value" THEN "ok" ELSE "failed"]

\* lines 201-218: validation of the introspected schema
buildHasuraSchema_unchecked(introspected) ==
    [ok |-> TRUE, schema |-> introspected, missing |-> ""]

buildHasuraSchema_skipsLast(introspected) ==
    LET absent == {i \in 1..(Len(coreTypes) - 1) : coreTypes[i] \notin introspected}
    IN  IF absent = {}
        THEN [ok |-> TRUE, schema |-> introspected, missing |-> ""]
        ELSE [ok |-> FALSE, schema |-> {},
              missing |-> coreTypes[CHOOSE i \in absent : \A j \in absent : i <= j]]

buildHasuraSchema(introspected) ==
    LET absent == {i \in 1..Len(coreTypes) : coreTypes[i] \notin introspected}
    IN  IF absent = {}
        THEN [ok |-> TRUE, schema |-> introspected, missing |-> ""]
        ELSE [ok |-> FALSE, schema |-> {},
              missing |-> coreTypes[CHOOSE i \in absent : \A j \in absent : i <= j]]

\* pRetry runs attempt n of a unit: the unit's first operation is issued
StartAttempt_resumes(rec, unit, n) ==
    LET op == UnitOps(unit)[IF n > 1 THEN Len(UnitOps(unit)) ELSE 1]
    IN  [rec EXCEPT !.pc = op, !.unit = unit, !.attempt = n,
                    !.runs = IF unit = rec.unit THEN @ + 1 ELSE 1,
                    !.invoked = @ \cup ({op} \cap CliCommands)]

StartAttempt(rec, unit, n) ==
    [rec EXCEPT !.pc = UnitOps(unit)[1], !.unit = unit, !.attempt = n,
                !.runs = IF unit = rec.unit THEN @ + 1 ELSE 1,
                !.invoked = @ \cup ({UnitOps(unit)[1]} \cap CliCommands)]

\* the call proceeds to its i-th step; result: the call, the flag and the
\* fetchers. A step that has nothing to wait for (a skipped apply, a fetcher
\* call that is a no-op) finishes in the same segment.
RECURSIVE BeginStep(_, _, _, _)
BeginStep(rec, i, flag, fs) ==
    IF i > Len(Order(rec.kind))
    THEN [rec |-> [rec EXCEPT !.pc = "returned", !.unit = "", !.attempt = 0, !.runs = 0],
          flag |-> flag, fetcher |-> fs]
    ELSE LET step == Order(rec.kind)[i]
             f  == FetcherOf(step)
             r1 == [rec EXCEPT !.step = i, !.begun = Append(@, step)]
             skip == [r1 EXCEPT !.finished = Append(@, step), !.unit = "",
                                !.attempt = 0, !.runs = 0]
         IN  CASE step = "apply" ->
                    IF AlreadyApplying(flag)
                    THEN BeginStep([r1 EXCEPT !.finished = Append(@, step)], i + 1, flag, fs)
                    ELSE [rec |-> StartAttempt(r1, "migrations", 1), flag |-> TRUE,
                          fetcher |-> fs]
               [] step = "build" ->
                    [rec |-> StartAttempt(r1, "build", 1), flag |-> flag, fetcher |-> fs]
               [] step \in {"pv", "supply"} ->
                    IF FetcherInitialize(fs[f]) = fs[f]
                    THEN BeginStep(skip, i + 1, flag, fs)
                    ELSE [rec |-> [r1 EXCEPT !.pc = "fetch", !.unit = step,
                                             !.attempt = 0, !.runs = 0],
                          flag |-> flag,
                          fetcher |-> [fs EXCEPT ![f] = FetcherInitialize(fs[f])]]
               [] OTHER ->
                    IF FetcherShutdown(fs[f]) = fs[f]
                    THEN BeginStep(skip, i + 1, flag, fs)
                    ELSE [rec |-> [r1 EXCEPT !.pc = "stopping", !.unit = step,
                                             !.attempt = 0, !.runs = 0],
                          flag |-> flag,
                          fetcher |-> [fs EXCEPT ![f] = FetcherShutdown(fs[f])]]

\* the current step of the call has finished successfully
FinishStep(rec, flag, fs) ==
    BeginStep([rec EXCEPT !.finished = Append(@, Order(rec.kind)[rec.step])],
              rec.step + 1, flag, fs)

\* an attempt of the current unit failed with error: pRetry either schedules
\* the next attempt or rejects with that error, which nothing in
\* applySchemaAndMetadata or initialize catches
AttemptFailed_continue(rec, error) ==
    IF pRetryShouldRetry(rec.attempt, error)
    THEN [rec EXCEPT !.pc = "backoff"]
    ELSE IF rec.unit = "migrations"
         THEN StartAttempt(rec, "metadata", 1)
         ELSE [rec EXCEPT !.pc = "rejected", !.raised = error]

AttemptFailed_buildAnyway(rec, error) ==
    IF pRetryShouldRetry(rec.attempt, error)
    THEN [rec EXCEPT !.pc = "backoff"]
    ELSE IF rec.kind = "init" /\ rec.unit \in {"migrations", "metadata"}
         THEN StartAttempt([rec EXCEPT !.step = 2, !.begun = Append(@, "build")], "build", 1)
         ELSE [rec EXCEPT !.pc = "rejected", !.raised = error]

AttemptFailed(rec, error) ==
    IF pRetryShouldRetry(rec.attempt, error)
    THEN [rec EXCEPT !.pc = "backoff"]
    ELSE [rec EXCEPT !.pc = "rejected", !.raised = error]

(* ------------------------------ actions -------------------------------- *)

\* the instance right after its constructor
Constructed ==
    /\ applyingSchemaAndMetadata = FALSE
    /\ schema = Absent
    /\ fetcher = [f \in Fetchers |-> NewFetcher]
    /\ call = [c \in Calls |-> IdleCall]

Init ==
    /\ Constructed
    /\ remoteSchema = {}
    /\ buildOutcome = NotBuilt
    /\ utxos = <<>>
    /\ utxosCount = 0
    /\ summary = NoSummary

\* a call of applySchemaAndMetadata() (kind "apply"), initialize() (kind
\* "init") or shutdown() (kind "shutdown")
Issue(c, kind) ==
    /\ call[c].pc = "idle"
    /\ c > 1 => call[c - 1].pc /= "idle"
    /\ LET r0 == [IdleCall EXCEPT !.kind = kind,
                      !.concurrent = \E d \in Calls : InApply(call[d])]
           next == BeginStep(r0, 1, applyingSchemaAndMetadata, fetcher)
       IN  /\ call' = [call EXCEPT ![c] = next.rec]
           /\ applyingSchemaAndMetadata' = next.flag
           /\ fetcher' = next.fetcher
    /\ UNCHANGED <<schema, buildVars, summaryVars>>

CallApplySchemaAndMetadata(c) == Issue(c, "apply")

CallInitialize(c) == Issue(c, "init")

CallShutdown(c) == Issue(c, "shutdown")

\* hasuraCli: the command in flight exits with status 0
CliSucceeds(c) ==
    /\ call[c].pc \in CliCommands
    /\ LET rec == call[c]
           ops == UnitOps(rec.unit)
           k   == CHOOSE i \in 1..Len(ops) : ops[i] = rec.pc
           ok  == [rec EXCEPT !.okUnits = @ \cup {rec.unit}]
           next == IF rec.unit = "migrations"
                   THEN [rec |-> StartAttempt(ok, "metadata", 1),
                         flag |-> applyingSchemaAndMetadata, fetcher |-> fetcher]
                   ELSE FinishStep(ok, FALSE, fetcher)
       IN  IF k < Len(ops)
           THEN /\ call' = [call EXCEPT ![c] =
                       [rec EXCEPT !.pc = ops[k + 1],
                                   !.invoked = @ \cup {ops[k + 1]}]]
                /\ UNCHANGED <<applyingSchemaAndMetadata, fetcher>>
           ELSE /\ call' = [call EXCEPT ![c] = next.rec]
                /\ applyingSchemaAndMetadata' = next.flag
                /\ fetcher' = next.fetcher
    /\ UNCHANGED <<schema, buildVars, summaryVars>>

\* hasuraCli: the command in flight fails, the promise rejects with exec's error
CliFails(c) ==
    /\ call[c].pc \in CliCommands
    /\ call' = [call EXCEPT ![c] =
           AttemptFailed(@, Error("cli", call[c].unit, call[c].pc, call[c].attempt))]
    /\ UNCHANGED <<applyingSchemaAndMetadata, schema, fetcher, buildVars, summaryVars>>

\* pRetry's delay has elapsed: the next attempt of the unit starts
BackoffTimer(c) ==
    /\ call[c].pc = "backoff"
    /\ call' = [call EXCEPT ![c] = StartAttempt(@, call[c].unit, call[c].attempt + 1)]
    /\ UNCHANGED <<applyingSchemaAndMetadata, schema, fetcher, buildVars, summaryVars>>

\* introspectSchema resolves with the remote schema; the rest of
\* buildHasuraSchema and the assignment of line 139 follow
IntrospectionCompletes(c, introspected) ==
    /\ call[c].pc = "introspect"
    /\ LET rec == call[c]
           built == buildHasuraSchema(introspected)
           next == FinishStep([rec EXCEPT !.okUnits = @ \cup {"build"}],
                              applyingSchemaAndMetadata, fetcher)
       IN  IF built.ok
           THEN /\ schema' = built.schema
                /\ call' = [call EXCEPT ![c] = next.rec]
                /\ applyingSchemaAndMetadata' = next.flag
                /\ fetcher' = next.fetcher
           ELSE /\ call' = [call EXCEPT ![c] =
                       AttemptFailed(rec, Error("missing", "build", built.missing, rec.attempt))]
                /\ UNCHANGED <<schema, applyingSchemaAndMetadata, fetcher>>
    /\ UNCHANGED <<buildVars, summaryVars>>

\* the introspection request itself fails
IntrospectionFails(c) ==
    /\ call[c].pc = "introspect"
    /\ call' = [call EXCEPT ![c] =
           AttemptFailed(@, Error("introspect", "build", "introspect", call[c].attempt))]
    /\ UNCHANGED <<applyingSchemaAndMetadata, schema, fetcher, buildVars, summaryVars>>

\* DataFetcher.initialize(): the producer's first invocation, whose query
\* settled with outcome, succeeds; the periodic loop starts and the call of
\* initialize() goes on
FetchSucceeds(c, outcome) ==
    /\ call[c].pc = "fetch"
    /\ LET f == FetcherOf(call[c].unit)
           out == Producer(f, outcome)
           next == FinishStep(call[c], applyingSchemaAndMetadata,
                              [fetcher EXCEPT ![f] = FetcherStarted(@, out.value)])
       IN  /\ out.kind = "value"
           /\ call' = [call EXCEPT ![c] = next.rec]
           /\ applyingSchemaAndMetadata' = next.flag
           /\ fetcher' = next.fetcher
    /\ UNCHANGED <<schema, buildVars, summaryVars>>

\* DataFetcher.initialize(): the producer's first invocation fails, the error
\* propagates to initialize(), which does not catch it
FetchFails(c, outcome) ==
    /\ call[c].pc = "fetch"
    /\ LET f == FetcherOf(call[c].unit)
           out == Producer(f, outcome)
       IN  /\ out.kind = "error"
           /\ call' = [call EXCEPT ![c] =
                  [@ EXCEPT !.pc = "rejected",
                            !.raised = Error("fetch", call[c].unit, out.message, 1)]]
           /\ fetcher' = [fetcher EXCEPT ![f] = FetcherStartFailed(@)]
    /\ UNCHANGED <<applyingSchemaAndMetadata, schema, buildVars, summaryVars>>

\* the promise of a DataFetcher.shutdown() that stopped its fetcher resolves
ShutdownCompletes(c) ==
    /\ call[c].pc = "stopping"
    /\ LET next == FinishStep(call[c], applyingSchemaAndMetadata, fetcher)
       IN  /\ call' = [call EXCEPT ![c] = next.rec]
           /\ applyingSchemaAndMetadata' = next.flag
           /\ fetcher' = next.fetcher
    /\ UNCHANGED <<schema, buildVars, summaryVars>>

\* the timer of a running fetcher fires
Tick(f) ==
    /\ fetcher[f].state = "Running"
    /\ fetcher' = [fetcher EXCEPT ![f] = FetcherTick(@)]
    /\ UNCHANGED <<applyingSchemaAndMetadata, schema, call, buildVars, summaryVars>>

\* the producer invocation of a tick settles, its query having settled with
\* outcome
ProducerSettles(f, outcome) ==
    /\ fetcher[f].state \in {"Running", "Stopped"}
    /\ fetcher[f].inFlight > 0
    /\ fetcher' = [fetcher EXCEPT ![f] = FetcherSettled(@, Producer(f, outcome))]
    /\ UNCHANGED <<applyingSchemaAndMetadata, schema, call, buildVars, summaryVars>>

Next ==
    \/ \E c \in 1..MaxCalls : CallApplySchemaAndMetadata(c)
    \/ \E c \in 1..MaxCalls : CallInitialize(c)
    \/ \E c \in Calls : CliSucceeds(c)
    \/ \E c \in Calls : CliFails(c)
    \/ \E c \in Calls : BackoffTimer(c)
    \/ \E c \in Calls, r \in IntrospectionResults : IntrospectionCompletes(c, r)
    \/ \E c \in Calls : IntrospectionFails(c)
    \/ \E c \in Calls, q \in PlainOutcomes : FetchSucceeds(c, q)
    \/ \E c \in Calls, q \in PlainOutcomes : FetchFails(c, q)

Spec == Init /\ [][Next]_vars

\* every CLI command, introspection request and first fetch in flight settles
\* and every retry timer fires: the event loop runs a pending callback
Fairness ==
    \A c \in Calls :
        /\ WF_vars(CliSucceeds(c) \/ CliFails(c))
        /\ WF_vars(BackoffTimer(c))
        /\ WF_vars(IntrospectionFails(c)
                     \/ \E r \in IntrospectionResults : IntrospectionCompletes(c, r))
        /\ WF_vars(\E q \in PlainOutcomes : FetchSucceeds(c, q) \/ FetchFails(c, q))

NextLive ==
    \/ \E c \in 1..MaxLiveCalls : CallApplySchemaAndMetadata(c)
    \/ \E c \in 1..MaxLiveCalls : CallInitialize(c)
    \/ \E c \in Calls : CliSucceeds(c)
    \/ \E c \in Calls : CliFails(c)
    \/ \E c \in Calls : BackoffTimer(c)
    \/ \E c \in Calls, r \in IntrospectionResults : IntrospectionCompletes(c, r)
    \/ \E c \in Calls : IntrospectionFails(c)
    \/ \E c \in Calls, q \in PlainOutcomes : FetchSucceeds(c, q)
    \/ \E c \in Calls, q \in PlainOutcomes : FetchFails(c, q)

SpecLive == Init /\ [][NextLive]_vars /\ Fairness

(* ------------------- the fetchers and their lifecycle ------------------- *)

\* initialize() and shutdown() calls with the fetchers' timers running. A call
\* of initialize() that fails before line 149 touches no fetcher, so here the
\* CLI commands and the introspection succeed.
NextFetchers ==
    \/ \E c \in 1..MaxCalls : CallInitialize(c)
    \/ \E c \in 1..MaxCalls : CallShutdown(c)
    \/ \E c \in Calls : CliSucceeds(c)
    \/ \E c \in Calls : IntrospectionCompletes(c, RequiredTypes)
    \/ \E c \in Calls, q \in QueryOutcomes : FetchSucceeds(c, q)
    \/ \E c \in Calls, q \in QueryOutcomes : FetchFails(c, q)
    \/ \E c \in Calls : ShutdownCompletes(c)
    \/ \E f \in Fetchers : Tick(f)
    \/ \E f \in Fetchers, q \in QueryOutcomes : ProducerSettles(f, q)

SpecFetchers == Init /\ [][NextFetchers]_vars

\* longer sequences of initialize() and shutdown() calls. What a call does to
\* a fetcher depends on the fetcher's state alone, which no tick changes, so
\* here the timers do not fire.
NextLifecycle ==
    \/ \E c \in 1..MaxLifecycleCalls : CallInitialize(c)
    \/ \E c \in 1..MaxLifecycleCalls : CallShutdown(c)
    \/ \E c \in Calls : CliSucceeds(c)
    \/ \E c \in Calls : IntrospectionCompletes(c, RequiredTypes)
    \/ \E c \in Calls, q \in QueryOutcomes : FetchSucceeds(c, q)
    \/ \E c \in Calls, q \in QueryOutcomes : FetchFails(c, q)
    \/ \E c \in Calls : ShutdownCompletes(c)

SpecLifecycle == Init /\ [][NextLifecycle]_vars

(* -------------------- buildHasuraSchema on its own --------------------- *)

InitBuild ==
    /\ Constructed
    /\ remoteSchema \in SUBSET TypeNames
    /\ buildOutcome = NotBuilt
    /\ utxos = <<>>
    /\ utxosCount = 0
    /\ summary = NoSummary

\* lines 208-218 on the schema introspectSchema resolved with
BuildHasuraSchema ==
    /\ buildOutcome = NotBuilt
    /\ buildOutcome' = buildHasuraSchema(remoteSchema)
    /\ UNCHANGED <<clientVars, remoteSchema, summaryVars>>

NextBuild == BuildHasuraSchema

SpecBuild == InitBuild /\ [][NextBuild]_vars

(* ---------------------- getPaymentAddressSummary ------------------------ *)

\* A JavaScript string is the sequence of its characters; quantities travel as
\* decimal strings.
DigitChars == <<"0", "1", "2", "3", "4", "5", "6", "7", "8", "9">>

DigitValue ==
    [ch \in {"0", "1", "2", "3", "4", "5", "6", "7", "8", "9"} |->
        CHOOSE d \in 0..9 : DigitChars[d + 1] = ch]

DigitOf(ch) == DigitValue[ch]

IsDigit(ch) == ch \in DOMAIN DigitValue

Zeros(n) == [i \in 1..n |-> 0]

Reverse(seq) == [i \in 1..Len(seq) |-> seq[Len(seq) + 1 - i]]

\* the digits of a coefficient without its leading zeros (<<0>> for zero)
RECURSIVE StripLeadingZeros(_)
StripLeadingZeros(ds) ==
    IF Len(ds) > 1 /\ ds[1] = 0 THEN StripLeadingZeros(Tail(ds)) ELSE ds

RECURSIVE StripTrailingZeros(_)
StripTrailingZeros(ds) ==
    IF Len(ds) > 1 /\ ds[Len(ds)] = 0
    THEN StripTrailingZeros(SubSeq(ds, 1, Len(ds) - 1))
    ELSE ds

\* the value of a run of decimal digit characters
RECURSIVE NatOfDigits(_)
NatOfDigits(ds) ==
    IF ds = <<>> THEN 0 ELSE 10 * NatOfDigits(SubSeq(ds, 1, Len(ds) - 1)) + ds[Len(ds)]

\* the decimal digits of a natural number
RECURSIVE DigitsOfNat(_)
DigitsOfNat(n) ==
    IF n < 10 THEN <<n>> ELSE Append(DigitsOfNat(n \div 10), n % 10)

\* bignumber.js: exponent from which toString switches to exponential notation
TO_EXP_POS == 21

\* new BigNumber(str) for the strings the aggregation meets: a non-negative
\* integer in plain notation or in the exponential notation toString produces.
\* The value is the sequence of its decimal digits, most significant first.
BigNumber(str) ==
    LET ePos  == {i \in 1..Len(str) : str[i] = "e"}
        coeff == IF ePos = {} THEN str
                 ELSE SubSeq(str, 1, (CHOOSE i \in ePos : TRUE) - 1)
        expo  == IF ePos = {} THEN <<>>
                 ELSE SubSeq(str, (CHOOSE i \in ePos : TRUE) + 2, Len(str))
        dot   == {i \in 1..Len(coeff) : coeff[i] = "."}
        fracLen == IF dot = {} THEN 0 ELSE Len(coeff) - (CHOOSE i \in dot : TRUE)
        cs    == SelectSeq(coeff, IsDigit)
        digits == [i \in 1..Len(cs) |-> DigitOf(cs[i])]
        e     == NatOfDigits([i \in 1..Len(expo) |-> DigitOf(expo[i])])
    IN  StripLeadingZeros(digits \o Zeros(e - fracLen))

\* x.plus(y): digit by digit from the least significant end, with carry
RECURSIVE AddReversed(_, _, _)
AddReversed(a, b, carry) ==
    IF a = <<>> /\ b = <<>>
    THEN IF carry = 0 THEN <<>> ELSE <<carry>>
    ELSE LET da == IF a = <<>> THEN 0 ELSE Head(a)
             db == IF b = <<>> THEN 0 ELSE Head(b)
             ta == IF a = <<>> THEN <<>> ELSE Tail(a)
             tb == IF b = <<>> THEN <<>> ELSE Tail(b)
         IN  <<(da + db + carry) % 10>> \o AddReversed(ta, tb, (da + db + carry) \div 10)

plus(x, y) == StripLeadingZeros(Reverse(AddReversed(Reverse(x), Reverse(y), 0)))

\* x.toString(): plain digits below 1e21, exponential notation from there on
toString(x) ==
    LET chars(ds) == [i \in 1..Len(ds) |-> DigitChars[ds[i] + 1]]
        e == Len(x) - 1
        c == StripTrailingZeros(x)
    IN  IF e < TO_EXP_POS
        THEN chars(x)
        ELSE <<DigitChars[c[1] + 1]>>
             \o (IF Len(c) > 1 THEN <<".">> \o chars(Tail(c)) ELSE <<>>)
             \o <<"e", "+">> \o chars(DigitsOfNat(e))

\* lines 287-289 and 309-311: the quantity of an entry that already exists
AddQuantity_concat(current, quantity) == current \o quantity

AddQuantity_overwrite(current, quantity) == quantity

AddQuantity(current, quantity) ==
    toString(plus(BigNumber(current), BigNumber(quantity)))

\* the asset of the entry kept under the reserved key 'ada', lines 294-299
AdaAsset == [assetId |-> "ada", assetName |-> "ada", name |-> "ada", policyId |-> ""]

\* Map<assetId, AssetBalance>: entries in insertion order
MapHas(map, key) == \E i \in 1..Len(map) : map[i].key = key

MapGet(map, key) == map[CHOOSE i \in 1..Len(map) : map[i].key = key].value

MapSet(map, key, value) ==
    IF MapHas(map, key)
    THEN [i \in 1..Len(map) |-> IF map[i].key = key THEN [key |-> key, value |-> value]
                                                    ELSE map[i]]
    ELSE Append(map, [key |-> key, value |-> value])

\* lines 282-302: the base-currency quantity of one utxo
AddAda(map, utxo) ==
    IF MapHas(map, "ada")
    THEN MapSet(map, "ada",
                [MapGet(map, "ada") EXCEPT !.quantity = AddQuantity(@, utxo.value)])
    ELSE MapSet(map, "ada", [asset |-> AdaAsset, quantity |-> utxo.value])

\* lines 303-317: the tokens of one utxo
RECURSIVE AddTokens(_, _)
AddTokens(map, tokens) ==
    IF tokens = <<>> THEN map
    ELSE LET token == Head(tokens)
             id == token.asset.assetId
         IN  AddTokens(
                 IF MapHas(map, id)
                 THEN MapSet(map, id,
                             [MapGet(map, id) EXCEPT !.quantity = AddQuantity(@, token.quantity)])
                 ELSE MapSet(map, id, token),
                 Tail(tokens))

\* lines 280-318: the loop over result.data.utxos
RECURSIVE AggregateUtxos_seedsAda(_, _)
AggregateUtxos_seedsAda(map, records) ==
    LET seeded == IF MapHas(map, "ada") THEN map
                  ELSE MapSet(map, "ada", [asset |-> AdaAsset, quantity |-> <<"0">>])
    IN  IF records = <<>> THEN seeded
        ELSE AggregateUtxos_seedsAda(
                 AddTokens(AddAda(seeded, Head(records)), Head(records).tokens),
                 Tail(records))

RECURSIVE AggregateUtxos(_, _)
AggregateUtxos(map, records) ==
    IF records = <<>> THEN map
    ELSE AggregateUtxos(AddTokens(AddAda(map, Head(records)), Head(records).tokens),
                        Tail(records))

\* lines 319-322: [...map.values()]
MapValues(map) == [i \in 1..Len(map) |-> map[i].value]

\* inputs of the aggregation: the rows the query returned, at most MaxUtxos
\* utxos carrying at most MaxTokens token rows between them
MaxUtxos == 2

MaxTokens == 3

Str(n) == toString(DigitsOfNat(n))

UtxoValues == {Str(1000000), Str(2000000)}

TokenQuantities == {Str(5), Str(7)}

TokenAsset(id) == [assetId |-> id, assetName |-> id, name |-> id, policyId |-> "policy"]

\* asset A occurs with two quantities, asset B with one
Tokens ==
    {[asset |-> TokenAsset("A"), quantity |-> q] : q \in TokenQuantities}
        \cup {[asset |-> TokenAsset("B"), quantity |-> Str(5)]}

SeqsUpTo(S, n) == UNION {[1..k -> S] : k \in 0..n}

\* the utxos with at most k tokens
Utxos(k) == {[value |-> v, tokens |-> t] : v \in UtxoValues, t \in SeqsUpTo(Tokens, k)}

\* the results of n utxos with at most k tokens between them
RECURSIVE UtxoResults(_, _)
UtxoResults(n, k) ==
    IF n = 0 THEN {<<>>}
    ELSE UNION {{<<utxo>> \o rest : rest \in UtxoResults(n - 1, k - Len(utxo.tokens))} :
                   utxo \in Utxos(k)}

InitSummary ==
    /\ Constructed
    /\ remoteSchema = {}
    /\ buildOutcome = NotBuilt
    /\ utxos \in UNION {UtxoResults(n, MaxTokens) : n \in 0..MaxUtxos}
    /\ utxosCount \in {Len(utxos), Len(utxos) + 1}
    /\ summary = NoSummary

\* lines 280-323 on the result of the query
GetPaymentAddressSummary ==
    /\ summary = NoSummary
    /\ summary' = [assetBalances |-> MapValues(AggregateUtxos(<<>>, utxos)),
                   utxosCount |-> utxosCount]
    /\ UNCHANGED <<clientVars, buildVars, utxos, utxosCount>>

NextSummary == GetPaymentAddressSummary

SpecSummary == InitSummary /\ [][NextSummary]_vars

(* ------------- getPaymentAddressSummary on large quantities ------------- *)

\* quantities around and beyond 2^53, 2^64 and 10^21
LargeQuantities ==
    {Str(1),
     Str(90071992) \o Str(54740993),
     Str(184467440) \o Str(73709551) \o Str(615),
     Str(999999999) \o Str(999999999) \o Str(999)}

LargeUtxos ==
    {[value |-> v, tokens |-> t] :
        v \in LargeQuantities,
        t \in {<<>>} \cup {<<[asset |-> TokenAsset("A"), quantity |-> q]>> :
                                q \in LargeQuantities}}

InitLarge ==
    /\ Constructed
    /\ remoteSchema = {}
    /\ buildOutcome = NotBuilt
    /\ utxos \in UNION {[1..n -> LargeUtxos] : n \in 1..MaxUtxos}
    /\ utxosCount = Len(utxos)
    /\ summary = NoSummary

SpecLarge == InitLarge /\ [][NextSummary]_vars

(* ============================== claims ================================= *)

Range(seq) == {seq[i] : i \in 1..Len(seq)}

IsPrefix(a, b) == Len(a) <= Len(b) /\ a = SubSeq(b, 1, Len(a))

\* C1: a call issued while another call's apply sequence is in flight is a
\* silent no-op (no CLI command, no error, its apply step has returned), and
\* at no time are two apply sequences in flight.
C1_ReentrantCallIsSkipped ==
    /\ Cardinality({c \in Calls : InApply(call[c])}) <= 1
    /\ \A c \in Calls :
          call[c].concurrent =>
              /\ call[c].invoked = {}
              /\ call[c].raised.kind /= "cli"
              /\ "apply" \in Range(call[c].finished)
              /\ call[c].kind = "apply" => call[c].pc = "returned"

C1_Witness ==
    \E c, d \in Calls :
        /\ InApply(call[c])
        /\ call[d].concurrent /\ call[d].kind = "apply" /\ call[d].pc = "returned"

\* C2: when the call that set the applying flag has ended, by completing or by
\* raising, the flag is cleared (the flag is set only while an apply sequence is
\* in flight), so a call issued while no apply sequence is in flight executes
\* the apply sequence.
C2_FlagClearedWhenApplyEnds ==
    /\ applyingSchemaAndMetadata => \E c \in Calls : InApply(call[c])
    /\ \A c \in Calls :
          (call[c].kind /= "idle" /\ ~call[c].concurrent) => call[c].invoked /= {}

\* C3: in every initialize() call the steps begin in the order apply, build,
\* protocol-version fetcher, circulating-supply fetcher, and a step has begun
\* only if every earlier step of that call has finished successfully.
C3_InitializeStepsInOrder ==
    \A c \in Calls :
        call[c].kind = "init" =>
            /\ IsPrefix(call[c].begun, <<"apply", "build", "pv", "supply">>)
            /\ IsPrefix(call[c].finished, call[c].begun)
            /\ Len(call[c].begun) <= Len(call[c].finished) + 1
            /\ call[c].pc = "returned" => Len(call[c].finished) = 4

C3_Witness ==
    \E c \in Calls :
        /\ call[c].kind = "init" /\ call[c].pc = "returned"
        /\ call[c].finished = <<"apply", "build", "pv", "supply">>
        /\ call[c].invoked = CliCommands

\* C4 (as stated): a schema build that fails for a missing required type is
\* fatal: in the same step initialize() rejects with that error.
C4_MissingTypeIsFatal ==
    [][\A c \in Calls :
          (call[c].pc = "introspect" /\ call'[c].pc /= "introspect") =>
              \A r \in IntrospectionResults :
                  (~(RequiredTypes \subseteq r) /\ IntrospectionCompletes(c, r)) =>
                      /\ call'[c].pc = "rejected"
                      /\ call'[c].raised.kind = "missing"]_vars

\* C4 (amended): a schema build that fails for a missing required type is
\* retried like any other build failure: after such a failure on attempts 1..9
\* nothing is raised and the build is run again once the delay has elapsed;
\* only on the 10th attempt does initialize() reject, with that error.
C4_MissingTypeIsRetried ==
    [][\A c \in Calls :
          /\ (call[c].pc = "introspect" /\ call'[c].pc /= "introspect") =>
                \A r \in IntrospectionResults :
                    (~(RequiredTypes \subseteq r) /\ IntrospectionCompletes(c, r)) =>
                        IF call[c].attempt < 10
                        THEN /\ call'[c].pc = "backoff"
                             /\ call'[c].raised = NoError
                             /\ call'[c].unit = "build"
                        ELSE /\ call'[c].pc = "rejected"
                             /\ call'[c].raised.kind = "missing"
                             /\ call'[c].raised.what \in RequiredTypes \ r
                             /\ call'[c].raised.att = 10
          /\ (call[c].pc = "backoff" /\ call[c].unit = "build" /\ call'[c].pc /= "backoff") =>
                /\ call'[c].pc = "introspect"
                /\ call'[c].attempt = call[c].attempt + 1]_vars

C4_Witness ==
    \E c \in Calls :
        /\ call[c].pc = "rejected"
        /\ call[c].raised.kind = "missing"
        /\ call[c].runs = 10

\* C5: a retried unit (migrations, metadata, schema build) that fails on every
\* attempt is run exactly 10 times and the error raised is the error of the
\* 10th attempt, unchanged; a unit whose attempt k succeeds has been run k
\* times, raises nothing and is not run again.
C5_RetryCount ==
    /\ [](\A c \in Calls :
            /\ call[c].runs <= 10
            /\ call[c].runs = call[c].attempt
            /\ call[c].unit \notin call[c].okUnits
            /\ call[c].raised.unit \in {"migrations", "metadata", "build"} =>
                  /\ call[c].pc = "rejected"
                  /\ call[c].unit = call[c].raised.unit
                  /\ call[c].runs = 10
                  /\ call[c].raised.att = 10)
    /\ [][\A c \in Calls :
            /\ (call[c].pc \in CliCommands /\ call'[c].pc \in {"backoff", "rejected"}) =>
                  IF call[c].runs < 10
                  THEN call'[c].pc = "backoff" /\ call'[c].raised = NoError
                  ELSE /\ call'[c].pc = "rejected"
                       /\ call'[c].raised = Error("cli", call[c].unit, call[c].pc, 10)
            /\ (call[c].pc = "introspect" /\ call'[c].pc \in {"backoff", "rejected"}) =>
                  IF call[c].runs < 10
                  THEN call'[c].pc = "backoff" /\ call'[c].raised = NoError
                  ELSE /\ call'[c].pc = "rejected"
                       /\ call'[c].raised.unit = "build" /\ call'[c].raised.att = 10
            /\ call'[c].okUnits /= call[c].okUnits =>
                  /\ call'[c].okUnits = call[c].okUnits \cup {call[c].unit}
                  /\ call[c].runs = call[c].attempt
                  /\ call'[c].raised = NoError]_vars

C5_Witness ==
    \E c \in Calls :
        /\ call[c].pc = "rejected"
        /\ call[c].raised = Error("cli", "metadata", MetadataApply, 10)
        /\ call[c].runs = 10
        /\ "migrations" \in call[c].okUnits

\* C6: within one call no metadata command is invoked before an attempt of
\* the migration unit has fully succeeded; a call whose migration unit
\* exhausted its retries has invoked no metadata command.
C6_MigrationsBeforeMetadata ==
    \A c \in Calls :
        /\ (call[c].invoked \cap {MetadataClear, MetadataApply} /= {}
               \/ call[c].unit = "metadata") =>
              "migrations" \in call[c].okUnits
        /\ call[c].raised.unit = "migrations" =>
              call[c].invoked \cap {MetadataClear, MetadataApply} = {}
        /\ "migrations" \in call[c].okUnits => {MigrateDown, MigrateUp} \subseteq call[c].invoked

C6_Witness ==
    \E c, d \in Calls :
        /\ call[c].pc = "rejected" /\ call[c].raised.unit = "migrations"
        /\ call[c].invoked = {MigrateDown, MigrateUp}
        /\ call[d].invoked = CliCommands /\ call[d].pc = "returned"

\* C9: buildHasuraSchema succeeds, returning the introspected schema, exactly
\* when that schema has every required type (Block, Cardano, Epoch,
\* Transaction); when one required type is absent it fails naming that type.
C9_SchemaValidation ==
    buildOutcome /= NotBuilt =>
        /\ buildOutcome.ok <=> {"Block", "Cardano", "Epoch", "Transaction"} \subseteq remoteSchema
        /\ buildOutcome.ok => buildOutcome.schema = remoteSchema
        /\ \A t \in {"Block", "Cardano", "Epoch", "Transaction"} :
              {"Block", "Cardano", "Epoch", "Transaction"} \ remoteSchema = {t} =>
                  ~buildOutcome.ok /\ buildOutcome.missing = t

C9_Witness ==
    /\ remoteSchema = {"Block", "Cardano", "Epoch", "Asset"}
    /\ ~buildOutcome.ok
    /\ buildOutcome.missing = "Transaction"

\* C10: this.schema is absent or exposes all required top-level types, and a
\* failed build attempt leaves it unchanged.
C10_SchemaIsValidated ==
    /\ [](schema = Absent \/ {"Block", "Cardano", "Epoch", "Transaction"} \subseteq schema)
    /\ [][\A c \in Calls :
            (call[c].pc = "introspect" /\ call'[c].pc \in {"backoff", "rejected"}) =>
                schema' = schema]_vars

C10_Witness ==
    /\ schema /= Absent
    /\ \E c \in Calls : call[c].pc = "rejected" /\ call[c].raised.kind = "missing"

\* the exact total of one asset over the records, computed on naturals
RECURSIVE TokenTotal(_, _)
TokenTotal(tokens, id) ==
    IF tokens = <<>> THEN 0
    ELSE (IF Head(tokens).asset.assetId = id
          THEN NatOfDigits([i \in 1..Len(Head(tokens).quantity) |->
                               DigitOf(Head(tokens).quantity[i])])
          ELSE 0) + TokenTotal(Tail(tokens), id)

RECURSIVE Total(_, _)
Total(records, id) ==
    IF records = <<>> THEN 0
    ELSE (IF id = "ada"
          THEN NatOfDigits([i \in 1..Len(Head(records).value) |->
                               DigitOf(Head(records).value[i])])
          ELSE TokenTotal(Head(records).tokens, id)) + Total(Tail(records), id)

DecimalString(n) == [i \in 1..Len(DigitsOfNat(n)) |-> DigitChars[DigitsOfNat(n)[i] + 1]]

\* C7: over a non-empty sequence of records the aggregation returns exactly
\* one entry per distinct asset id ('ada' and every token asset id occurring
\* in a record) and each entry's quantity is the sum of the contributing
\* quantities.
C7_OneEntryPerAssetWithSum ==
    (summary /= NoSummary /\ utxos /= <<>>) =>
        LET balances == summary.assetBalances
            ids == {"ada"} \cup {t.asset.assetId :
                       t \in UNION {Range(utxos[i].tokens) : i \in 1..Len(utxos)}}
        IN  /\ {balances[i].asset.assetId : i \in 1..Len(balances)} = ids
            /\ Len(balances) = Cardinality(ids)
            /\ \A i \in 1..Len(balances) :
                  balances[i].quantity = DecimalString(Total(utxos, balances[i].asset.assetId))

\* the example of the claim, with B's quantity 5
C7_Witness ==
    /\ utxos = << [value |-> Str(1000000),
                   tokens |-> << [asset |-> TokenAsset("A"), quantity |-> Str(5)] >>],
                  [value |-> Str(2000000),
                   tokens |-> << [asset |-> TokenAsset("A"), quantity |-> Str(7)],
                                 [asset |-> TokenAsset("B"), quantity |-> Str(5)] >>] >>
    /\ summary /= NoSummary
    /\ {<<b.asset.assetId, b.quantity>> : b \in Range(summary.assetBalances)}
          = {<<"ada", <<"3", "0", "0", "0", "0", "0", "0">> >>,
             <<"A", <<"1", "2">> >>, <<"B", <<"5">> >>}

\* every sequence made of the same records in another order, each with its
\* token list in another order
TokenOrders(record) ==
    {[value |-> record.value, tokens |-> [i \in 1..Len(record.tokens) |-> record.tokens[p[i]]]] :
        p \in Permutations(1..Len(record.tokens))}

RECURSIVE WithTokenOrders(_)
WithTokenOrders(records) ==
    IF records = <<>> THEN {<<>>}
    ELSE {<<r>> \o rest : r \in TokenOrders(Head(records)),
                          rest \in WithTokenOrders(Tail(records))}

Reorderings(records) ==
    UNION {WithTokenOrders([i \in 1..Len(records) |-> records[p[i]]]) :
              p \in Permutations(1..Len(records))}

Pairs(balances) == {<<b.asset.assetId, b.quantity>> : b \in Range(balances)}

\* C8: the aggregation of any reordering of the records, and of the token
\* list inside each record, gives the same set of (asset id, quantity) pairs.
C8_OrderIndependent ==
    summary /= NoSummary =>
        \A p \in Permutations(1..Len(utxos)) :
            \A other \in WithTokenOrders([i \in 1..Len(utxos) |-> utxos[p[i]]]) :
                Pairs(MapValues(AggregateUtxos(<<>>, other))) = Pairs(summary.assetBalances)

C8_Witness ==
    /\ summary /= NoSummary
    /\ Len(utxos) = 2
    /\ utxos[1] /= utxos[2]
    /\ Len(utxos[2].tokens) = 2
    /\ utxos[2].tokens[1] /= utxos[2].tokens[2]
    /\ Cardinality(Reorderings(utxos)) = 4

\* C11: the 'not ready yet' error of the circulating-supply query is never
\* raised out of the producer (initialize() never rejects with it), while
\* every other error of the query is raised out of the producer.
C11_NotReadyIsNotRaised ==
    /\ \A q \in QueryOutcomes :
          (q.kind = "error" /\ q.message /= NotReadyMessage) =>
              adaCirculatingSupplyProducer(q) = q
    /\ \A c \in Calls :
          ~(/\ call[c].raised.kind = "fetch"
            /\ call[c].raised.unit = "supply"
            /\ call[c].raised.what = NotReadyMessage)

\* C12: every shutdown() call shuts the circulating-supply fetcher down first
\* and the protocol-version fetcher only once that shutdown has completed;
\* the protocol-version fetcher is never stopped while the circulating-supply
\* fetcher is running; a shutdown() call never raises and returns after both
\* steps, whatever the state of the fetchers.
C12_ShutdownInReverseOrder ==
    /\ [](\A c \in Calls :
            call[c].kind = "shutdown" =>
                /\ IsPrefix(call[c].begun, <<"supplyStop", "pvStop">>)
                /\ IsPrefix(call[c].finished, call[c].begun)
                /\ Len(call[c].begun) <= Len(call[c].finished) + 1
                /\ call[c].pc \in {"stopping", "returned"}
                /\ call[c].raised = NoError
                /\ call[c].pc = "returned" =>
                      call[c].finished = <<"supplyStop", "pvStop">>)
    /\ [][(fetcher'["ProtocolParams"].state = "Stopped"
             /\ fetcher["ProtocolParams"].state /= "Stopped") =>
                /\ fetcher["AdaCirculatingSupply"].state /= "Running"
                /\ \E c \in Calls :
                      /\ call'[c].kind = "shutdown"
                      /\ call'[c].pc = "stopping" /\ call'[c].unit = "pvStop"
                      /\ call'[c].finished = <<"supplyStop">>]_vars

C12_Witness ==
    \E c, d \in Calls :
        /\ call[c].kind = "shutdown" /\ call[c].pc = "returned"
        /\ call[c].finished = <<"supplyStop", "pvStop">>
        /\ call[d].kind = "init" /\ call[d].pc = "returned"
        /\ \A f \in Fetchers : fetcher[f].state = "Stopped" /\ fetcher[f].armed = 1

\* C13: a fetcher has at most one producer invocation in flight; a tick that
\* fires while an invocation is outstanding starts none, and when an
\* invocation settles none is started in its place.
C13_AtMostOneInFlight ==
    /\ [](\A f \in Fetchers : fetcher[f].inFlight <= 1)
    /\ [][\A f \in Fetchers :
            /\ (fetcher[f].inFlight > 0 /\ Tick(f)) =>
                  fetcher'[f].inFlight = fetcher[f].inFlight
            /\ fetcher'[f].inFlight > fetcher[f].inFlight => fetcher[f].inFlight = 0
            /\ fetcher'[f].inFlight < fetcher[f].inFlight => fetcher'[f].inFlight = 0]_vars

C13_Witness ==
    \E f \in Fetchers :
        /\ fetcher[f].state = "Running"
        /\ fetcher[f].skipped
        /\ fetcher[f].inFlight = 1

\* C14: when the producer invocation of a tick of a running fetcher fails, the
\* cached value is the one cached before, the fetcher keeps running and no
\* call raises.
C14_FailedTickKeepsValue ==
    [][\A f \in Fetchers : \A q \in QueryOutcomes :
          (/\ fetcher[f].state = "Running"
           /\ Producer(f, q).kind = "error"
           /\ ProducerSettles(f, q)) =>
              /\ fetcher'[f].lastValue = fetcher[f].lastValue
              /\ fetcher'[f].lastValue \in Values
              /\ fetcher'[f].state = "Running"
              /\ fetcher'[f].armed = fetcher[f].armed
              /\ call' = call]_vars

C14_Witness ==
    \E f \in Fetchers :
        /\ fetcher[f].state = "Running"
        /\ fetcher[f].lastTick = "failed"
        /\ fetcher[f].lastValue = "v2"

\* the exact sum of decimal strings, computed on limbs of four digits
Limbs(str) ==
    LET n == (Len(str) + 3) \div 4
    IN  [k \in 1..n |->
            NatOfDigits([i \in 1..(IF k = n THEN Len(str) - 4 * (n - 1) ELSE 4) |->
                DigitOf(str[Len(str) - 4 * k + (IF k = n THEN 4 * n - Len(str) ELSE 0) + i])])]

RECURSIVE AddLimbs(_, _, _)
AddLimbs(a, b, carry) ==
    IF a = <<>> /\ b = <<>>
    THEN IF carry = 0 THEN <<>> ELSE <<carry>>
    ELSE LET x == (IF a = <<>> THEN 0 ELSE Head(a)) + (IF b = <<>> THEN 0 ELSE Head(b)) + carry
         IN  <<x % 10000>> \o AddLimbs(IF a = <<>> THEN <<>> ELSE Tail(a),
                                       IF b = <<>> THEN <<>> ELSE Tail(b), x \div 10000)

\* the plain decimal string of a number given by its limbs
PlainDecimal(limbs) ==
    LET n == Len(limbs)
        four(x) == <<DigitChars[(x \div 1000) + 1], DigitChars[((x \div 100) % 10) + 1],
                     DigitChars[((x \div 10) % 10) + 1], DigitChars[(x % 10) + 1]>>
        RECURSIVE lower(_)
        lower(k) == IF k = 0 THEN <<>> ELSE four(limbs[k]) \o lower(k - 1)
    IN  IF n = 0 THEN <<"0">> ELSE DecimalString(limbs[n]) \o lower(n - 1)

\* the quantities of the records that contribute to an asset
Contributions(records, id) ==
    LET RECURSIVE tokenQs(_)
        tokenQs(tokens) ==
            IF tokens = <<>> THEN <<>>
            ELSE (IF Head(tokens).asset.assetId = id THEN <<Head(tokens).quantity>> ELSE <<>>)
                 \o tokenQs(Tail(tokens))
        RECURSIVE all(_)
        all(rs) ==
            IF rs = <<>> THEN <<>>
            ELSE (IF id = "ada" THEN <<Head(rs).value>> ELSE tokenQs(Head(rs).tokens))
                 \o all(Tail(rs))
    IN  all(records)

RECURSIVE SumLimbs(_)
SumLimbs(quantities) ==
    IF quantities = <<>> THEN <<>>
    ELSE AddLimbs(Limbs(Head(quantities)), SumLimbs(Tail(quantities)), 0)

\* C15: every quantity of the result is the exact sum of the contributing
\* quantities written as a plain decimal string (digits only), also beyond
\* 2^53: '9007199254740993' and '1' give '9007199254740994'.
C15_ExactPlainDecimalSum ==
    summary /= NoSummary =>
        /\ \A i \in 1..Len(summary.assetBalances) :
              LET b == summary.assetBalances[i]
              IN  /\ \A k \in 1..Len(b.quantity) : IsDigit(b.quantity[k])
                  /\ b.quantity = PlainDecimal(SumLimbs(Contributions(utxos, b.asset.assetId)))
        /\ (Len(utxos) = 2 /\ utxos[1].value = Str(90071992) \o Str(54740993)
                /\ utxos[2].value = Str(1)) =>
              \E i \in 1..Len(summary.assetBalances) :
                  /\ summary.assetBalances[i].asset.assetId = "ada"
                  /\ summary.assetBalances[i].quantity = Str(90071992) \o Str(54740994)

\* C16: the second command of a pair ('migrate apply --up all', 'metadata
\* apply') is invoked only when the first command of the same attempt has
\* succeeded; a failed command invokes nothing; the attempt after a failure
\* starts with the first command of the pair.
C16_PairIsOneRetriedUnit ==
    [][\A c \in Calls :
          /\ (call'[c].pc = MigrateUp /\ call[c].pc /= MigrateUp) =>
                /\ call[c].pc = MigrateDown
                /\ call'[c].attempt = call[c].attempt
                /\ CliSucceeds(c)
          /\ (call'[c].pc = MetadataApply /\ call[c].pc /= MetadataApply) =>
                /\ call[c].pc = MetadataClear
                /\ call'[c].attempt = call[c].attempt
                /\ CliSucceeds(c)
          /\ (call[c].pc \in CliCommands /\ CliFails(c)) =>
                /\ call'[c].pc \in {"backoff", "rejected"}
                /\ call'[c].invoked = call[c].invoked
          /\ (call[c].pc = "backoff" /\ call'[c].pc /= "backoff"
                /\ call[c].unit \in {"migrations", "metadata"}) =>
                /\ call'[c].pc = IF call[c].unit = "migrations" THEN MigrateDown
                                 ELSE MetadataClear
                /\ call'[c].unit = call[c].unit
                /\ call'[c].attempt = call[c].attempt + 1]_vars

C16_Witness ==
    \E c \in Calls :
        /\ call[c].pc = MigrateUp
        /\ call[c].attempt = 3
        /\ call[c].runs = 3

\* C17: the schema build of an initialize() call never starts while an apply
\* sequence is in flight on the instance, and when it starts some call has
\* applied the migrations and the metadata.
C17_BuildAfterApply ==
    [][\A c \in Calls :
          (call'[c].pc = "introspect" /\ call[c].pc \notin {"introspect", "backoff"}) =>
              /\ ~ \E d \in Calls : InApply(call'[d])
              /\ \E d \in Calls : {"migrations", "metadata"} \subseteq call'[d].okUnits]_vars

\* C18: an initialize() call that rejected raised the error of the step it
\* was in and began no later step: no build after a failed apply, no fetcher
\* after a failed build, no circulating-supply fetcher after a failed first
\* fetch of the protocol version; a fetcher leaves Created only in a call that
\* reached its step; the last failed attempt of a unit and a failed first fetch
\* reject the call, and a rejected call does nothing more.
C18_FailureStopsInitialize ==
    /\ [](/\ \A c \in Calls :
                (call[c].kind = "init" /\ call[c].pc = "rejected") =>
                    /\ call[c].raised /= NoError
                    /\ call[c].raised.unit \in {"migrations", "metadata"} =>
                          call[c].begun = <<"apply">>
                    /\ call[c].raised.unit = "build" =>
                          call[c].begun = <<"apply", "build">>
                    /\ call[c].raised.unit = "pv" =>
                          /\ call[c].begun = <<"apply", "build", "pv">>
                          /\ call[c].raised.kind = "fetch"
                    /\ call[c].finished = SubSeq(call[c].begun, 1, Len(call[c].begun) - 1)
          /\ \A c \in Calls :
                call[c].raised /= NoError => call[c].pc = "rejected"
          /\ fetcher["ProtocolParams"].state /= "Created" =>
                \E c \in Calls : "pv" \in Range(call[c].begun)
          /\ fetcher["AdaCirculatingSupply"].state /= "Created" =>
                \E c \in Calls : "supply" \in Range(call[c].begun))
    /\ [][\A c \in Calls :
            /\ call[c].pc = "rejected" => call'[c] = call[c]
            /\ (call[c].pc \in CliCommands /\ call[c].attempt = 10 /\ CliFails(c)) =>
                  /\ call'[c].pc = "rejected"
                  /\ call'[c].begun = call[c].begun
            /\ (call[c].pc = "introspect" /\ call[c].attempt = 10
                  /\ call'[c] /= call[c] /\ "build" \notin call'[c].okUnits) =>
                  /\ call'[c].pc = "rejected"
                  /\ call'[c].begun = call[c].begun
                  /\ fetcher' = fetcher
            /\ (call[c].pc = "fetch" /\ \E q \in PlainOutcomes : FetchFails(c, q)) =>
                  /\ call'[c].pc = "rejected"
                  /\ call'[c].raised.kind = "fetch"
                  /\ call'[c].raised.unit = call[c].unit
                  /\ call'[c].begun = call[c].begun]_vars

C18_Witness ==
    \E c \in Calls :
        /\ call[c].kind = "init" /\ call[c].pc = "rejected"
        /\ call[c].raised.kind = "fetch" /\ call[c].raised.unit = "pv"
        /\ call[c].begun = <<"apply", "build", "pv">>
        /\ fetcher["AdaCirculatingSupply"].state = "Created"
        /\ fetcher["ProtocolParams"].state = "Initializing"

\* C19: over any sequence of initialize() and shutdown() calls a fetcher's
\* periodic loop is armed at most once, a fetcher begins its first fetch only
\* from the state Created, and a loop is armed only by that first fetch.
C19_FetcherStartedOnce ==
    /\ [](\A f \in Fetchers : fetcher[f].armed <= 1 /\ fetcher[f].inFlight <= 1)
    /\ [][\A f \in Fetchers :
            /\ (fetcher'[f].state = "Initializing" /\ fetcher[f].state /= "Initializing") =>
                  fetcher[f].state = "Created"
            /\ fetcher'[f].armed /= fetcher[f].armed =>
                  /\ fetcher[f].armed = 0
                  /\ fetcher[f].state = "Initializing"
                  /\ fetcher'[f].state = "Running"
            /\ fetcher[f].state = "Running" => fetcher'[f].state \in {"Running", "Stopped"}
            /\ fetcher[f].state = "Stopped" => fetcher'[f].state = "Stopped"]_vars

C19_Witness ==
    /\ call[1].kind = "init" /\ call[1].pc = "returned"
    /\ call[2].kind = "shutdown" /\ call[2].pc = "returned"
    /\ call[2].finished = <<"supplyStop", "pvStop">>
    /\ call[3].kind = "init" /\ call[3].pc = "returned"
    /\ call[3].invoked = CliCommands
    /\ \A f \in Fetchers : fetcher[f].state = "Stopped" /\ fetcher[f].armed = 1

\* C20: every call of applySchemaAndMetadata() or initialize() that was issued
\* ends, returned or rejected, and no retried unit is run more than 10 times.
C20_CallsTerminate ==
    /\ [](\A c \in Calls : call[c].runs <= 10 /\ call[c].attempt <= 10)
    /\ \A c \in Calls :
          (call[c].pc /= "idle") ~> (call[c].pc \in {"returned", "rejected"})

C20_Witness ==
    \E c \in Calls :
        /\ call[c].kind = "init" /\ call[c].pc = "rejected"
        /\ call[c].raised.unit = "build" /\ call[c].runs = 10
        /\ call[c].okUnits = {"migrations", "metadata"}

\* C21: the result has an entry 'ada' exactly when the query returned at
\* least one utxo (one such entry then); for no utxo assetBalances is the
\* empty list; utxosCount is the count of the aggregate query, whatever the
\* number of utxos aggregated.
C21_AdaEntryIffUtxos ==
    summary /= NoSummary =>
        LET adaEntries == {i \in 1..Len(summary.assetBalances) :
                              summary.assetBalances[i].asset.assetId = "ada"}
        IN  /\ adaEntries /= {} <=> Len(utxos) >= 1
            /\ Cardinality(adaEntries) <= 1
            /\ utxos = <<>> => summary.assetBalances = <<>>
            /\ summary.utxosCount = utxosCount

C21_Witness ==
    /\ summary /= NoSummary
    /\ utxos = <<>>
    /\ summary.assetBalances = <<>>
    /\ utxosCount = 1
    /\ summary.utxosCount = 1

====
